---- MODULE Spec2Model ----
(***************************************************************************)
(* Tenant front end of MicroRent: the token store and fetchWithAuth        *)
(* gateway of lib/api.ts, the dashboard, login, payment and repair pages.  *)
(* One browser tab is modelled: localStorage, the current location, the    *)
(* mounted page component's React state and the requests in flight.        *)
(***************************************************************************)
EXTENDS Integers, Sequences, FiniteSets, TLC

\* ---- bounds of the model ----
MaxInFlight == 2      \* requests that may be in flight at once
MaxBatch == 2         \* files chosen in one file-input change event
MaxReads == 2         \* FileReader reads pending at once

\* ---- values ----
Null == "null"                    \* JS null / absent
Undefined == "undefined"          \* JS undefined
Tokens == {"tokA", "tokB"}        \* access_token values the backend issues
Files == {"img1", "img2"}         \* image files the user can choose
Details == {"bad credentials", ""} \* detail strings of a non-ok login body
StatusStrings == {"paid", "unpaid", "overdue", "archived"}

\* ---- program constants ----
TOKEN_KEY == "microrent_access_token"
LOGIN_PATH == "/(tenant)/login"
DASHBOARD_PATH == "/(tenant)/dashboard"
PAYMENT_PATH == "/(tenant)/payment"
REPAIR_PATH == "/(tenant)/repair"
LANDING_PATH == "/"
LANDING_LOGIN_HREF == "/login"
MAX_IMAGES == 5

TENANT_ENDPOINT == "/api/tenant/me"
PAYMENTS_ENDPOINT == "/api/tenant/payments"
LOGIN_ENDPOINT == "/api/auth/login"
PAYMENT_SUBMIT_ENDPOINT == "/api/payment/submit"
REPAIR_CREATE_ENDPOINT == "/api/repair/create"

\* user-facing texts (ASCII stand-ins for the Chinese literals)
LOGIN_FAILED == "login failed"                    \* "登入失敗"
LOGIN_FAILED_CHECK == "login failed, check"       \* "登入失敗，請檢查帳號密碼"
UNAUTHORIZED == "Unauthorized"
TENANT_FAILED == "cannot get tenant info"         \* "無法取得房客資訊"
PAYMENTS_FAILED == "cannot get payment history"   \* "無法取得繳費紀錄"
FAILED_TO_FETCH == "Failed to fetch"              \* message of fetch's TypeError
ALERT_TOO_MANY == "at most 5 photos"              \* "最多只能上傳 5 張照片"
ALERT_PAYMENT_OK == "payment submitted"           \* "✅ 繳費記錄已提交，請等待房東確認"
ALERT_REPAIR_OK == "repair submitted"             \* "✅ 維修申請已提交"
ALERT_SUBMIT_FAILED == "submit failed"            \* "❌ 提交失敗，請稍後再試"
ALERT_NETWORK_ERROR == "network error"            \* "❌ 網路錯誤，請檢查連線"

Paths == {LANDING_PATH, LANDING_LOGIN_HREF, LOGIN_PATH, DASHBOARD_PATH,
          PAYMENT_PATH, REPAIR_PATH}

VARIABLES
    localStorage,   \* function: storage key -> stored string
    location,       \* path of the document shown
    hardNav,        \* path assigned to window.location.href, not yet loaded
    pool,           \* pending call -> how many of them are in flight
    dashboard,      \* React state of TenantDashboard
    loginForm,      \* React state of TenantLogin
    paymentForm,    \* React state of PaymentSubmit
    repairForm,     \* React state of RepairRequest
    event,          \* the handler the last step ran, and the files it was given
    loggedOut,      \* the last write to the token store was a clear
    sent,           \* the requests the last step sent, as fetch() got them
    alertMsg,       \* text of the alert() shown by the last step, or Null
    outcome         \* how the call settled by the last step ended, or NoOutcome

vars == <<localStorage, location, hardNav, pool, dashboard, loginForm,
          paymentForm, repairForm, event, loggedOut, sent, alertMsg, outcome>>

Event(handler, files) == [handler |-> handler, files |-> files]

\* ---- localStorage ----
EmptyStorage == [k \in {} |-> Null]

getItem(store, key) == IF key \in DOMAIN store THEN store[key] ELSE Null

setItem(store, key, value) ==
    [k \in DOMAIN store \cup {key} |-> IF k = key THEN value ELSE store[k]]

removeItem(store, key) == [k \in DOMAIN store \ {key} |-> store[k]]

\* variant: the !token test never fires
Falsy_Never(value) == FALSE

\* JS truthiness of a string-or-null value: !value
Falsy(value) == value = Null \/ value = ""

\* ---- Token management (lib/api.ts) ----
getAccessToken(store) == getItem(store, TOKEN_KEY)

\* variant: the token is written under another key than it is read from
setAccessToken_OtherKey(store, token) == setItem(store, "access_token", token)

setAccessToken(store, token) == setItem(store, TOKEN_KEY, token)

\* variant: the token is not removed
clearAccessToken_NoOp(store) == store

clearAccessToken(store) == removeItem(store, TOKEN_KEY)

\* variant: the prefix is attached whatever the token is
AuthHeaders_AlwaysBearer(token) == [Authorization |-> <<"Bearer", token>>]

\* A header value is a sequence of words: `Bearer ${token}` is
\* <<"Bearer", token>> and the empty string "" is << >>.
\* headers = {...options.headers, "Authorization": token ? `Bearer ${token}` : ""}
AuthHeaders(token) ==
    [Authorization |-> IF ~Falsy(token) THEN <<"Bearer", token>> ELSE << >>]

\* variant: the submissions attach the stored token as fetchWithAuth does
NoHeaders_Auth == AuthHeaders(getAccessToken(localStorage))

\* the headers of the plain fetch() calls
JsonHeaders == [ContentType |-> <<"application/json">>]
NoHeaders == [k \in {} |-> << >>]

\* ---- routing: the page component a path shows ----
PageAt(path) ==
    CASE path = LANDING_PATH -> "LandingPage"
      [] path \in {LOGIN_PATH, LANDING_LOGIN_HREF} -> "TenantLogin"
      [] path = DASHBOARD_PATH -> "TenantDashboard"
      [] path = PAYMENT_PATH -> "PaymentSubmit"
      [] path = REPAIR_PATH -> "RepairRequest"

\* ---- initial React state of each component (its useState calls) ----
\* tenant === null
NoTenant == [name |-> Null, payment_status |-> Null]

\* state of the two promises passed to Promise.all and of Promise.all itself
InitDashboard ==
    [tenant |-> NoTenant, payments |-> <<>>, isLoading |-> TRUE,
     effect |-> "todo",
     tenantP |-> "none", tenantData |-> NoTenant, tenantError |-> Null,
     paymentsP |-> "none", paymentData |-> <<>>, paymentsError |-> Null,
     all |-> "none"]

InitLoginForm == [isLoading |-> FALSE, error |-> ""]

InitPaymentForm ==
    [isSubmitting |-> FALSE, selectedFile |-> Null, previewUrl |-> Null,
     reads |-> <<>>]

InitRepairForm ==
    [isSubmitting |-> FALSE, selectedFiles |-> <<>>, previewUrls |-> <<>>,
     reads |-> <<>>]

\* ---- responses ----
EmptyBody ==
    [access_token |-> Null, refresh_token |-> Null, detail |-> "",
     tenant |-> NoTenant, payments |-> <<>>]

\* LoginResponse.refresh_token, issued along with access_token t
RefreshOf(t) == IF t = "tokA" THEN "refreshA" ELSE "refreshB"

\* fetch() rejects: there is no response
FetchFailure == [type |-> "error", status |-> 0, body |-> EmptyBody]

HttpResponse(status, body) == [type |-> "response", status |-> status, body |-> body]

\* what the last step reports about the call it settled: the response that
\* arrived, and either the message of the Error thrown to the caller or
\* "returned"
NoOutcome ==
    [endpoint |-> Null, response |-> FetchFailure, result |-> Null, alive |-> FALSE,
     token |-> Null, stored |-> Null]

\* alive: the component that made the call was still mounted; token: the
\* token the request was sent with; stored: the token in the store when the
\* response arrived
Settled(req, r, result) ==
    [endpoint |-> req.endpoint, response |-> r, result |-> result, alive |-> req.alive,
     token |-> req.token, stored |-> getAccessToken(localStorage)]

Ok(r) == r.type = "response" /\ r.status >= 200 /\ r.status <= 299

TenantInfos == {[name |-> "tenant", payment_status |-> st] : st \in StatusStrings}

PaymentLists == {<<>>} \cup {<<[period |-> "2026-01", status |-> st]>> : st \in {"paid", "unpaid", "void"}}

ErrorStatuses == {401, 500}

\* the answers of the backend to a call of endpoint
ResponsesOf(endpoint) ==
    {FetchFailure} \cup
    CASE endpoint = TENANT_ENDPOINT ->
            {HttpResponse(st, EmptyBody) : st \in ErrorStatuses} \cup
            {HttpResponse(200, [EmptyBody EXCEPT !.tenant = t]) : t \in TenantInfos}
      [] endpoint = PAYMENTS_ENDPOINT ->
            {HttpResponse(st, EmptyBody) : st \in ErrorStatuses} \cup
            {HttpResponse(200, [EmptyBody EXCEPT !.payments = ps]) : ps \in PaymentLists}
      [] endpoint = LOGIN_ENDPOINT ->
            {HttpResponse(200, [EmptyBody EXCEPT !.access_token = t,
                                                 !.refresh_token = RefreshOf(t)]) : t \in Tokens} \cup
            {HttpResponse(400, [EmptyBody EXCEPT !.detail = d]) : d \in Details}
      [] OTHER -> {HttpResponse(200, EmptyBody), HttpResponse(401, EmptyBody)}

\* ---- requests in flight ----
Endpoints == {TENANT_ENDPOINT, PAYMENTS_ENDPOINT, LOGIN_ENDPOINT,
              PAYMENT_SUBMIT_ENDPOINT, REPAIR_CREATE_ENDPOINT}

\* the endpoints called through fetchWithAuth
GatewayEndpoints == {TENANT_ENDPOINT, PAYMENTS_ENDPOINT}

\* a pending call: the endpoint called, whether the component that made the
\* call is still mounted, and the token fetchWithAuth read when it sent the
\* request (Null for a plain fetch and for a call sent with no token)
Calls ==
    {c \in [endpoint : Endpoints, alive : BOOLEAN, token : Tokens \cup {Null}] :
        c.endpoint \notin GatewayEndpoints => c.token = Null}

CallsOf(endpoints) == {c \in Calls : c.endpoint \in endpoints}

GatewayCalls == CallsOf(GatewayEndpoints)
LoginCalls == CallsOf({LOGIN_ENDPOINT})
PaymentCalls == CallsOf({PAYMENT_SUBMIT_ENDPOINT})
RepairCalls == CallsOf({REPAIR_CREATE_ENDPOINT})

\* a pending plain fetch() of a mounted component
InFlight(endpoint) == [endpoint |-> endpoint, alive |-> TRUE, token |-> Null]

\* a pending fetchWithAuth(endpoint) sent with the token of store
FetchWithAuthCall(endpoint, store, alive) ==
    [endpoint |-> endpoint, alive |-> alive, token |-> getAccessToken(store)]

\* pool[c] is the number of pending calls like c
EmptyPool == [c \in Calls |-> 0]

\* the number of pending calls among cs: one pair <<c, k>> for the k-th
\* pending call like c
Total(p, cs) == Cardinality(UNION {{<<c, k>> : k \in 1..p[c]} : c \in cs})

Room(p) == MaxInFlight - Total(p, Calls)

\* number of pending calls of endpoint made by mounted (alive) or by
\* unmounted components
CallsAt ==
    [e \in Endpoints |-> [a \in BOOLEAN |-> {c \in Calls : c.endpoint = e /\ c.alive = a}]]

Pending(p, endpoint, alive) == Total(p, CallsAt[endpoint][alive])

Issue(p, call) == [p EXCEPT ![call] = @ + 1]

Done(p, call) == [p EXCEPT ![call] = @ - 1]

\* a request as handed to fetch(): endpoint, headers and attached files
Request(endpoint, headers, files) ==
    [endpoint |-> endpoint, headers |-> headers, files |-> files]

\* variant: unmounting a component aborts the requests it made
Orphaned_Aborts(p) == [c \in Calls |-> IF c.alive THEN 0 ELSE p[c]]

\* the components of the replaced page are gone: their requests stay in
\* flight, but the setState calls of their continuations do nothing
Orphaned(p) ==
    [c \in Calls |-> IF c.alive THEN 0 ELSE p[c] + p[[c EXCEPT !.alive = TRUE]]]

Init ==
    /\ localStorage \in {EmptyStorage} \cup {setAccessToken(EmptyStorage, t) : t \in Tokens}
    /\ location = LANDING_PATH
    /\ hardNav = Null
    /\ pool = EmptyPool
    /\ dashboard = InitDashboard
    /\ loginForm = InitLoginForm
    /\ paymentForm = InitPaymentForm
    /\ repairForm = InitRepairForm
    /\ event = Event("", <<>>)
    /\ loggedOut = FALSE
    /\ sent = <<>>
    /\ alertMsg = Null
    /\ outcome = NoOutcome

\* ---- navigation ----
\* every component starts again from its useState initial values
FreshComponents ==
    /\ dashboard' = InitDashboard
    /\ loginForm' = InitLoginForm
    /\ paymentForm' = InitPaymentForm
    /\ repairForm' = InitRepairForm

SameComponents == UNCHANGED <<dashboard, loginForm, paymentForm, repairForm>>

\* router.push(path) / <Link href=path>: client-side navigation.  p is the
\* pool as the calling step leaves it.
RouterPush(path, p) ==
    /\ location' = path
    /\ IF PageAt(path) = PageAt(location)
       THEN SameComponents /\ pool' = p
       ELSE FreshComponents /\ pool' = Orphaned(p)

\* the links each page renders
Links ==
    CASE PageAt(location) = "LandingPage" -> {LANDING_LOGIN_HREF}
      [] PageAt(location) = "TenantLogin" -> {LANDING_PATH}
      [] PageAt(location) = "TenantDashboard" ->
            IF ~dashboard.isLoading /\ dashboard.tenant # NoTenant
               /\ dashboard.tenant.payment_status = "unpaid"
            THEN {PAYMENT_PATH, REPAIR_PATH} ELSE {}
      [] PageAt(location) = "PaymentSubmit" -> {DASHBOARD_PATH}
      [] PageAt(location) = "RepairRequest" -> {DASHBOARD_PATH}

ClickLink(path) ==
    /\ event' = Event("Link", <<>>)
    /\ path \in Links
    /\ RouterPush(path, pool)
    /\ sent' = <<>> /\ alertMsg' = Null /\ outcome' = NoOutcome
    /\ UNCHANGED <<localStorage, loggedOut, hardNav>>

\* the browser's Back / Forward buttons: the App Router shows the page of a
\* history entry of this document by client-side navigation, as router.push
\* does
HistoryTraverse(path) ==
    /\ event' = Event("popstate", <<>>)
    /\ path \in Paths /\ path # location
    /\ RouterPush(path, pool)
    /\ sent' = <<>> /\ alertMsg' = Null /\ outcome' = NoOutcome
    /\ UNCHANGED <<localStorage, loggedOut, hardNav>>

\* a full document load of path: the old document, its components and its
\* pending requests are gone; localStorage persists
LoadDocument(path) ==
    /\ event' = Event("load", <<>>)
    /\ location' = path
    /\ hardNav' = Null
    /\ pool' = EmptyPool
    /\ FreshComponents
    /\ sent' = <<>> /\ alertMsg' = Null /\ outcome' = NoOutcome
    /\ UNCHANGED <<localStorage, loggedOut>>

\* the user types a URL or reloads
BrowserNavigate(path) ==
    /\ path \in Paths
    /\ LoadDocument(path)

\* the navigation started by window.location.href = ... takes place
CommitHardNav ==
    /\ hardNav # Null
    /\ LoadDocument(hardNav)

\* ---- fetchWithAuth (lib/api.ts) ----
\* the request fetchWithAuth(endpoint) sends
FetchWithAuthRequest(endpoint, store) ==
    Request(endpoint, AuthHeaders(getAccessToken(store)), <<>>)

\* variant: every error status is taken for an expired session
Unauthorized_AnyError(r) == r.type = "response" /\ r.status >= 400

Unauthorized(r) == r.type = "response" /\ r.status = 401

\* how the call ends: an Error message thrown, or the response returned
FetchWithAuthResult(r) ==
    IF r.type = "error" THEN [threw |-> TRUE, message |-> FAILED_TO_FETCH]
    ELSE IF Unauthorized(r) THEN [threw |-> TRUE, message |-> UNAUTHORIZED]
    ELSE [threw |-> FALSE, message |-> "returned"]

\* variant: the 401 branch forgets clearAccessToken()
FetchWithAuthStorage_Keep(store, r) == store

FetchWithAuthStorage(store, r) ==
    IF Unauthorized(r) THEN clearAccessToken(store) ELSE store

\* variant: the 401 branch forgets the redirect
FetchWithAuthHref_Never(href, r) == href

FetchWithAuthHref(href, r) ==
    IF Unauthorized(r) THEN LOGIN_PATH ELSE href

\* variant: the !response.ok test is missing
ReadFulfilled_AnyResponse(r) == ~FetchWithAuthResult(r).threw

\* getTenantInfo / getPaymentHistory: the promise is fulfilled with the body
\* of an ok response and rejected otherwise
ReadFulfilled(r) == ~FetchWithAuthResult(r).threw /\ Ok(r)

\* message of the Error the promise is rejected with (Null when fulfilled)
ReadError(endpoint, r) ==
    IF FetchWithAuthResult(r).threw THEN FetchWithAuthResult(r).message
    ELSE IF Ok(r) THEN Null
    ELSE IF endpoint = TENANT_ENDPOINT THEN TENANT_FAILED
    ELSE PAYMENTS_FAILED

\* variant: the tenant is rendered as soon as its own fetch is fulfilled
PromiseSettled_NoJoin(d, endpoint, fulfilled, body, error) ==
    IF endpoint = TENANT_ENDPOINT
    THEN [d EXCEPT !.tenantP = IF fulfilled THEN "fulfilled" ELSE "rejected",
                   !.tenantData = body.tenant, !.tenantError = error,
                   !.tenant = IF fulfilled THEN body.tenant ELSE @,
                   !.isLoading = FALSE]
    ELSE [d EXCEPT !.paymentsP = IF fulfilled THEN "fulfilled" ELSE "rejected",
                   !.paymentData = body.payments, !.paymentsError = error,
                   !.payments = IF fulfilled THEN body.payments ELSE @]

\* variant: the catch handler does not call setIsLoading(false)
PromiseSettled_NoCatch(d, endpoint, fulfilled, body, error) ==
    LET d1 == IF endpoint = TENANT_ENDPOINT
              THEN [d EXCEPT !.tenantP = IF fulfilled THEN "fulfilled" ELSE "rejected",
                             !.tenantData = body.tenant, !.tenantError = error]
              ELSE [d EXCEPT !.paymentsP = IF fulfilled THEN "fulfilled" ELSE "rejected",
                             !.paymentData = body.payments, !.paymentsError = error]
    IN  IF d1.all # "pending" THEN d1
        ELSE IF ~fulfilled
             THEN [d1 EXCEPT !.all = "rejected"]
        ELSE IF d1.tenantP = "fulfilled" /\ d1.paymentsP = "fulfilled"
             THEN [d1 EXCEPT !.all = "fulfilled", !.tenant = d1.tenantData,
                             !.payments = d1.paymentData, !.isLoading = FALSE]
        ELSE d1

\* variant: the then handler hangs on getTenantInfo() alone
PromiseSettled_TenantOnly(d, endpoint, fulfilled, body, error) ==
    LET d1 == IF endpoint = TENANT_ENDPOINT
              THEN [d EXCEPT !.tenantP = IF fulfilled THEN "fulfilled" ELSE "rejected",
                             !.tenantData = body.tenant, !.tenantError = error]
              ELSE [d EXCEPT !.paymentsP = IF fulfilled THEN "fulfilled" ELSE "rejected",
                             !.paymentData = body.payments, !.paymentsError = error]
    IN  IF d1.all # "pending" \/ endpoint # TENANT_ENDPOINT THEN d1
        ELSE IF ~fulfilled
             THEN [d1 EXCEPT !.all = "rejected", !.isLoading = FALSE]
        ELSE [d1 EXCEPT !.all = "fulfilled", !.tenant = d1.tenantData,
                        !.payments = d1.paymentData, !.isLoading = FALSE]

\* Promise.all([getTenantInfo(), getPaymentHistory()]).then(...).catch(...)
\* seen from the component d when the promise of endpoint settles
PromiseSettled(d, endpoint, fulfilled, body, error) ==
    LET d1 == IF endpoint = TENANT_ENDPOINT
              THEN [d EXCEPT !.tenantP = IF fulfilled THEN "fulfilled" ELSE "rejected",
                             !.tenantData = body.tenant, !.tenantError = error]
              ELSE [d EXCEPT !.paymentsP = IF fulfilled THEN "fulfilled" ELSE "rejected",
                             !.paymentData = body.payments, !.paymentsError = error]
    IN  IF d1.all # "pending" THEN d1
        ELSE IF ~fulfilled
             THEN [d1 EXCEPT !.all = "rejected", !.isLoading = FALSE]
        ELSE IF d1.tenantP = "fulfilled" /\ d1.paymentsP = "fulfilled"
             THEN [d1 EXCEPT !.all = "fulfilled", !.tenant = d1.tenantData,
                             !.payments = d1.paymentData, !.isLoading = FALSE]
        ELSE d1

\* ---- TenantDashboard ----
BADGE_PAID == "green: paid"          \* bg-green-100, CheckCircle2, "已繳納"
BADGE_UNPAID == "yellow: pending"    \* bg-yellow-100, Clock, "待繳納"
BADGE_OVERDUE == "red: overdue"      \* bg-red-100, AlertCircle, "逾期"

\* variant: the "overdue" case is missing
getStatusBadge_NoOverdue(status) ==
    CASE status = "paid" -> BADGE_PAID
      [] status = "unpaid" -> BADGE_UNPAID
      [] OTHER -> Undefined

\* a switch without default: any other status returns undefined
getStatusBadge(status) ==
    CASE status = "paid" -> BADGE_PAID
      [] status = "unpaid" -> BADGE_UNPAID
      [] status = "overdue" -> BADGE_OVERDUE
      [] OTHER -> Undefined

\* the component is past its two early returns and renders the tenant
Rendered == ~dashboard.isLoading /\ dashboard.tenant # NoTenant

\* {getStatusBadge(tenant.payment_status)}
TenantBadge == getStatusBadge(dashboard.tenant.payment_status)

\* payments.map(payment => getStatusBadge(payment.status))
PaymentBadges ==
    [i \in DOMAIN dashboard.payments |-> getStatusBadge(dashboard.payments[i].status)]

\* the useEffect that runs once after the component is mounted
DashboardEffect ==
    /\ event' = Event("TenantDashboard.useEffect", <<>>)
    /\ PageAt(location) = "TenantDashboard"
    /\ dashboard.effect = "todo"
    /\ LET token == getItem(localStorage, TOKEN_KEY) IN
       IF Falsy(token)
       THEN RouterPush(LOGIN_PATH, pool) /\ sent' = <<>>
       ELSE /\ Room(pool) >= 2
            /\ pool' = Issue(Issue(pool, FetchWithAuthCall(TENANT_ENDPOINT, localStorage, TRUE)),
                             FetchWithAuthCall(PAYMENTS_ENDPOINT, localStorage, TRUE))
            /\ sent' = <<FetchWithAuthRequest(TENANT_ENDPOINT, localStorage),
                         FetchWithAuthRequest(PAYMENTS_ENDPOINT, localStorage)>>
            /\ dashboard' = [dashboard EXCEPT !.effect = "done", !.tenantP = "pending",
                                              !.paymentsP = "pending", !.all = "pending"]
            /\ UNCHANGED <<location, loginForm, paymentForm, repairForm>>
    /\ alertMsg' = Null /\ outcome' = NoOutcome
    /\ UNCHANGED <<localStorage, loggedOut, hardNav>>

\* variant: a 401 clears the store only while it still holds the token the
\* request was sent with
FetchWithAuthSettle_ClearsOwn(call, r) ==
    /\ event' = Event("fetchWithAuth", <<>>)
    /\ pool[call] > 0 /\ call.endpoint \in {TENANT_ENDPOINT, PAYMENTS_ENDPOINT}
    /\ r \in ResponsesOf(call.endpoint)
    /\ localStorage' = IF getAccessToken(localStorage) = call.token
                       THEN FetchWithAuthStorage(localStorage, r)
                       ELSE localStorage
    /\ loggedOut' = (Unauthorized(r) \/ loggedOut)
    /\ hardNav' = FetchWithAuthHref(hardNav, r)
    /\ pool' = Done(pool, call)
    /\ dashboard' = IF call.alive
                    THEN PromiseSettled(dashboard, call.endpoint, ReadFulfilled(r),
                                        r.body, ReadError(call.endpoint, r))
                    ELSE dashboard
    /\ outcome' = Settled(call, r, FetchWithAuthResult(r).message)
    /\ sent' = <<>> /\ alertMsg' = Null
    /\ UNCHANGED <<location, loginForm, paymentForm, repairForm>>

\* the response r to a pending fetchWithAuth call arrives; the
\* continuations of getTenantInfo / getPaymentHistory and of Promise.all run
FetchWithAuthSettle(call, r) ==
    /\ event' = Event("fetchWithAuth", <<>>)
    /\ pool[call] > 0 /\ call.endpoint \in {TENANT_ENDPOINT, PAYMENTS_ENDPOINT}
    /\ r \in ResponsesOf(call.endpoint)
    /\ localStorage' = FetchWithAuthStorage(localStorage, r)
    /\ loggedOut' = (Unauthorized(r) \/ loggedOut)
    /\ hardNav' = FetchWithAuthHref(hardNav, r)
    /\ pool' = Done(pool, call)
    /\ dashboard' = IF call.alive
                    THEN PromiseSettled(dashboard, call.endpoint, ReadFulfilled(r),
                                        r.body, ReadError(call.endpoint, r))
                    ELSE dashboard
    /\ outcome' = Settled(call, r, FetchWithAuthResult(r).message)
    /\ sent' = <<>> /\ alertMsg' = Null
    /\ UNCHANGED <<location, loginForm, paymentForm, repairForm>>

\* ---- sequences ----
RemoveAt(seq, i) == [j \in 1..(Len(seq) - 1) |-> IF j < i THEN seq[j] ELSE seq[j + 1]]

\* array.filter((_, j) => j !== index), index counted from 1 here
FilterOut(seq, i) == IF i \in 1..Len(seq) THEN RemoveAt(seq, i) ELSE seq

\* ---- login (lib/api.ts) and TenantLogin.handleSubmit ----
\* variant: the detail of the body is dropped
LoginErrorMessage_Generic(r) ==
    IF r.type = "error" THEN FAILED_TO_FETCH ELSE LOGIN_FAILED

\* message of the Error login() throws on a failed attempt:
\* new Error(error.detail || "登入失敗"), or fetch's own error
LoginErrorMessage(r) ==
    IF r.type = "error" THEN FAILED_TO_FETCH
    ELSE IF r.body.detail # "" THEN r.body.detail
    ELSE LOGIN_FAILED

\* setError(err.message || "登入失敗，請檢查帳號密碼")
ShownLoginError(message) == IF message # "" THEN message ELSE LOGIN_FAILED_CHECK

\* variant: setAccessToken runs before the response.ok test
LoginStorage_Always(store, r) ==
    IF r.type = "response" THEN setAccessToken(store, r.body.access_token) ELSE store

\* variant: login() also persists the refresh_token
LoginStorage_KeepsRefresh(store, r) ==
    IF Ok(r)
    THEN setItem(setAccessToken(store, r.body.access_token),
                 "microrent_refresh_token", r.body.refresh_token)
    ELSE store

\* variant: login() returns the data without calling setAccessToken
LoginStorage_Never(store, r) == store

\* login() stores the access_token of an ok response
LoginStorage(store, r) ==
    IF Ok(r) THEN setAccessToken(store, r.body.access_token) ELSE store

\* variant: the submit button is not disabled while isLoading is true
LoginSubmit_NotDisabled ==
    /\ event' = Event("TenantLogin.handleSubmit", <<>>)
    /\ PageAt(location) = "TenantLogin"
    /\ Room(pool) >= 1
    /\ loginForm' = [isLoading |-> TRUE, error |-> ""]
    /\ pool' = Issue(pool, InFlight(LOGIN_ENDPOINT))
    /\ sent' = <<Request(LOGIN_ENDPOINT, JsonHeaders, <<>>)>>
    /\ alertMsg' = Null /\ outcome' = NoOutcome
    /\ UNCHANGED <<localStorage, loggedOut, location, hardNav, dashboard, paymentForm, repairForm>>

\* <form onSubmit={handleSubmit}> with <button disabled={isLoading}>, up to
\* the await of login()
LoginSubmit ==
    /\ event' = Event("TenantLogin.handleSubmit", <<>>)
    /\ PageAt(location) = "TenantLogin"
    /\ ~loginForm.isLoading
    /\ Room(pool) >= 1
    /\ loginForm' = [isLoading |-> TRUE, error |-> ""]
    /\ pool' = Issue(pool, InFlight(LOGIN_ENDPOINT))
    /\ sent' = <<Request(LOGIN_ENDPOINT, JsonHeaders, <<>>)>>
    /\ alertMsg' = Null /\ outcome' = NoOutcome
    /\ UNCHANGED <<localStorage, loggedOut, location, hardNav, dashboard, paymentForm, repairForm>>

LoginSettle(call, r) ==
    /\ event' = Event("login", <<>>)
    /\ pool[call] > 0 /\ call.endpoint = LOGIN_ENDPOINT
    /\ r \in ResponsesOf(LOGIN_ENDPOINT)
    /\ localStorage' = LoginStorage(localStorage, r)
    /\ loggedOut' = (~Ok(r) /\ loggedOut)
    /\ IF Ok(r)
       THEN /\ RouterPush(DASHBOARD_PATH, Done(pool, call))
            /\ outcome' = Settled(call, r, "returned")
       ELSE /\ pool' = Done(pool, call)
            /\ loginForm' = IF call.alive
                            THEN [isLoading |-> FALSE,
                                  error |-> ShownLoginError(LoginErrorMessage(r))]
                            ELSE loginForm
            /\ outcome' = Settled(call, r, LoginErrorMessage(r))
            /\ UNCHANGED <<location, dashboard, paymentForm, repairForm>>
    /\ sent' = <<>> /\ alertMsg' = Null
    /\ UNCHANGED hardNav

\* ---- FileReader ----
\* reader.result of readAsDataURL(file)
DataUrl(file) == IF file = "img1" THEN "data:img1" ELSE "data:img2"

\* reader.result when onloadend fires (reads are taken to succeed)
ReadResults(file) == {DataUrl(file)}

\* ---- PaymentSubmit ----
PaymentFileSelect(file) ==
    /\ event' = Event("PaymentSubmit.handleFileSelect", <<file>>)
    /\ PageAt(location) = "PaymentSubmit"
    /\ paymentForm.previewUrl = Null
    /\ Len(paymentForm.reads) < MaxReads
    /\ paymentForm' = [paymentForm EXCEPT !.selectedFile = file,
                                          !.reads = Append(@, file)]
    /\ sent' = <<>> /\ alertMsg' = Null /\ outcome' = NoOutcome
    /\ UNCHANGED <<localStorage, loggedOut, location, hardNav, pool, dashboard, loginForm, repairForm>>

PaymentReadEnd(i, result) ==
    /\ event' = Event("PaymentSubmit.onloadend", <<>>)
    /\ i \in 1..Len(paymentForm.reads)
    /\ result \in ReadResults(paymentForm.reads[i])
    /\ paymentForm' = [paymentForm EXCEPT !.previewUrl = result,
                                          !.reads = RemoveAt(@, i)]
    /\ sent' = <<>> /\ alertMsg' = Null /\ outcome' = NoOutcome
    /\ UNCHANGED <<localStorage, loggedOut, location, hardNav, pool, dashboard, loginForm, repairForm>>

PaymentRemoveImage ==
    /\ event' = Event("PaymentSubmit.remove", <<>>)
    /\ PageAt(location) = "PaymentSubmit"
    /\ paymentForm.previewUrl # Null
    /\ paymentForm' = [paymentForm EXCEPT !.selectedFile = Null, !.previewUrl = Null]
    /\ sent' = <<>> /\ alertMsg' = Null /\ outcome' = NoOutcome
    /\ UNCHANGED <<localStorage, loggedOut, location, hardNav, pool, dashboard, loginForm, repairForm>>

PaymentHandleSubmit ==
    /\ event' = Event("PaymentSubmit.handleSubmit", <<>>)
    /\ PageAt(location) = "PaymentSubmit"
    /\ ~paymentForm.isSubmitting
    /\ Room(pool) >= 1
    /\ paymentForm' = [paymentForm EXCEPT !.isSubmitting = TRUE]
    /\ pool' = Issue(pool, InFlight(PAYMENT_SUBMIT_ENDPOINT))
    /\ sent' = <<Request(PAYMENT_SUBMIT_ENDPOINT, NoHeaders,
                         IF paymentForm.selectedFile # Null
                         THEN <<paymentForm.selectedFile>> ELSE <<>>)>>
    /\ alertMsg' = Null /\ outcome' = NoOutcome
    /\ UNCHANGED <<localStorage, loggedOut, location, hardNav, dashboard, loginForm, repairForm>>

\* variant: the confirmation is shown whatever the response is
SubmitAlert_AlwaysOk(r, okText) == okText

\* variant: a failed submission shows nothing
SubmitAlert_Silent(r, okText) == IF r.type = "response" /\ Ok(r) THEN okText ELSE Null

\* the alert of a submission handler, by response
SubmitAlert(r, okText) ==
    IF r.type = "error" THEN ALERT_NETWORK_ERROR
    ELSE IF Ok(r) THEN okText
    ELSE ALERT_SUBMIT_FAILED

\* variant: a successful submission does not leave the page
PaymentSettle_Stay(call, r) ==
    /\ event' = Event("PaymentSubmit.response", <<>>)
    /\ pool[call] > 0 /\ call.endpoint = PAYMENT_SUBMIT_ENDPOINT
    /\ r \in ResponsesOf(PAYMENT_SUBMIT_ENDPOINT)
    /\ alertMsg' = SubmitAlert(r, ALERT_PAYMENT_OK)
    /\ pool' = Done(pool, call)
    /\ paymentForm' = IF call.alive
                      THEN [paymentForm EXCEPT !.isSubmitting = FALSE]
                      ELSE paymentForm
    /\ outcome' = Settled(call, r, "returned")
    /\ sent' = <<>>
    /\ UNCHANGED <<localStorage, loggedOut, hardNav, location, dashboard, loginForm, repairForm>>

PaymentSettle(call, r) ==
    /\ event' = Event("PaymentSubmit.response", <<>>)
    /\ pool[call] > 0 /\ call.endpoint = PAYMENT_SUBMIT_ENDPOINT
    /\ r \in ResponsesOf(PAYMENT_SUBMIT_ENDPOINT)
    /\ alertMsg' = SubmitAlert(r, ALERT_PAYMENT_OK)
    /\ IF Ok(r)
       THEN RouterPush(DASHBOARD_PATH, Done(pool, call))
       ELSE /\ pool' = Done(pool, call)
            /\ paymentForm' = IF call.alive
                              THEN [paymentForm EXCEPT !.isSubmitting = FALSE]
                              ELSE paymentForm
            /\ UNCHANGED <<location, dashboard, loginForm, repairForm>>
    /\ outcome' = Settled(call, r, "returned")
    /\ sent' = <<>>
    /\ UNCHANGED <<localStorage, loggedOut, hardNav>>

\* ---- RepairRequest ----
\* the files of one change event: "img1", or "img1" and "img2", ...
FileAt(i) == IF i % 2 = 1 THEN "img1" ELSE "img2"

Batches == {[i \in 1..n |-> FileAt(i)] : n \in 1..MaxBatch}

\* variant: only the files already selected are counted
TooMany_IgnoresBatch(chosen, selected) == selected > MAX_IMAGES

\* variant: the limit is compared with >= 5 images more than allowed
TooMany_OffByOne(chosen, selected) == chosen + selected > MAX_IMAGES + 1

\* if (files.length + selectedFiles.length > 5) reject the batch
TooMany(chosen, selected) == chosen + selected > MAX_IMAGES

RepairFileSelect(files) ==
    /\ event' = Event("RepairRequest.handleFileSelect", files)
    /\ PageAt(location) = "RepairRequest"
    /\ Len(repairForm.previewUrls) < MAX_IMAGES
    /\ files \in Batches
    /\ IF TooMany(Len(files), Len(repairForm.selectedFiles))
       THEN /\ alertMsg' = ALERT_TOO_MANY
            /\ UNCHANGED repairForm
       ELSE /\ Len(repairForm.reads) + Len(files) <= MaxReads
            /\ repairForm' = [repairForm EXCEPT !.selectedFiles = @ \o files,
                                                !.reads = @ \o files]
            /\ alertMsg' = Null
    /\ sent' = <<>> /\ outcome' = NoOutcome
    /\ UNCHANGED <<localStorage, loggedOut, location, hardNav, pool, dashboard, loginForm, paymentForm>>

RepairReadEnd(i, result) ==
    /\ event' = Event("RepairRequest.onloadend", <<>>)
    /\ i \in 1..Len(repairForm.reads)
    /\ result \in ReadResults(repairForm.reads[i])
    /\ repairForm' = [repairForm EXCEPT !.previewUrls = Append(@, result),
                                        !.reads = RemoveAt(@, i)]
    /\ sent' = <<>> /\ alertMsg' = Null /\ outcome' = NoOutcome
    /\ UNCHANGED <<localStorage, loggedOut, location, hardNav, pool, dashboard, loginForm, paymentForm>>

RepairRemoveImage(index) ==
    /\ event' = Event("RepairRequest.removeImage", <<>>)
    /\ PageAt(location) = "RepairRequest"
    /\ index \in 1..Len(repairForm.previewUrls)
    /\ repairForm' = [repairForm EXCEPT !.selectedFiles = FilterOut(@, index),
                                        !.previewUrls = FilterOut(@, index)]
    /\ sent' = <<>> /\ alertMsg' = Null /\ outcome' = NoOutcome
    /\ UNCHANGED <<localStorage, loggedOut, location, hardNav, pool, dashboard, loginForm, paymentForm>>

RepairHandleSubmit ==
    /\ event' = Event("RepairRequest.handleSubmit", <<>>)
    /\ PageAt(location) = "RepairRequest"
    /\ ~repairForm.isSubmitting
    /\ Room(pool) >= 1
    /\ repairForm' = [repairForm EXCEPT !.isSubmitting = TRUE]
    /\ pool' = Issue(pool, InFlight(REPAIR_CREATE_ENDPOINT))
    /\ sent' = <<Request(REPAIR_CREATE_ENDPOINT, NoHeaders, repairForm.selectedFiles)>>
    /\ alertMsg' = Null /\ outcome' = NoOutcome
    /\ UNCHANGED <<localStorage, loggedOut, location, hardNav, dashboard, loginForm, paymentForm>>

RepairSettle(call, r) ==
    /\ event' = Event("RepairRequest.response", <<>>)
    /\ pool[call] > 0 /\ call.endpoint = REPAIR_CREATE_ENDPOINT
    /\ r \in ResponsesOf(REPAIR_CREATE_ENDPOINT)
    /\ alertMsg' = SubmitAlert(r, ALERT_REPAIR_OK)
    /\ IF Ok(r)
       THEN RouterPush(DASHBOARD_PATH, Done(pool, call))
       ELSE /\ pool' = Done(pool, call)
            /\ repairForm' = IF call.alive
                             THEN [repairForm EXCEPT !.isSubmitting = FALSE]
                             ELSE repairForm
            /\ UNCHANGED <<location, dashboard, loginForm, paymentForm>>
    /\ outcome' = Settled(call, r, "returned")
    /\ sent' = <<>>
    /\ UNCHANGED <<localStorage, loggedOut, hardNav>>

Next ==
    \/ \E path \in Paths : ClickLink(path)
    \/ \E path \in Paths : BrowserNavigate(path)
    \/ CommitHardNav
    \/ DashboardEffect
    \/ \E call \in GatewayCalls : \E r \in ResponsesOf(call.endpoint) : FetchWithAuthSettle(call, r)
    \/ LoginSubmit
    \/ \E call \in LoginCalls : \E r \in ResponsesOf(call.endpoint) : LoginSettle(call, r)
    \/ \E file \in Files : PaymentFileSelect(file)
    \/ \E i \in 1..MaxReads : \E result \in {DataUrl(f) : f \in Files} : PaymentReadEnd(i, result)
    \/ PaymentRemoveImage
    \/ PaymentHandleSubmit
    \/ \E call \in PaymentCalls : \E r \in ResponsesOf(call.endpoint) : PaymentSettle(call, r)
    \/ \E files \in Batches : RepairFileSelect(files)
    \/ \E i \in 1..MaxReads : \E result \in {DataUrl(f) : f \in Files} : RepairReadEnd(i, result)
    \/ \E index \in 1..MAX_IMAGES : RepairRemoveImage(index)
    \/ RepairHandleSubmit
    \/ \E call \in RepairCalls : \E r \in ResponsesOf(call.endpoint) : RepairSettle(call, r)

Spec == Init /\ [][Next]_vars

\* ---- the session layer with lib/api.ts called directly ----
\* getTenantInfo() / getPaymentHistory() are exported: any code may call them,
\* in any state, not only the dashboard with a token present
CallReadApi(endpoint) ==
    /\ endpoint \in GatewayEndpoints
    /\ Room(pool) >= 1
    /\ event' = Event("api", <<>>)
    /\ pool' = Issue(pool, FetchWithAuthCall(endpoint, localStorage, FALSE))
    /\ sent' = <<FetchWithAuthRequest(endpoint, localStorage)>>
    /\ alertMsg' = Null /\ outcome' = NoOutcome
    /\ UNCHANGED <<localStorage, loggedOut, location, hardNav, dashboard, loginForm,
                   paymentForm, repairForm>>

\* logout: the exported clearAccessToken()
Logout ==
    /\ event' = Event("clearAccessToken", <<>>)
    /\ localStorage' = clearAccessToken(localStorage)
    /\ loggedOut' = TRUE
    /\ sent' = <<>> /\ alertMsg' = Null /\ outcome' = NoOutcome
    /\ UNCHANGED <<location, hardNav, pool, dashboard, loginForm, paymentForm, repairForm>>

NextApi ==
    \/ \E path \in Paths : BrowserNavigate(path)
    \/ CommitHardNav
    \/ DashboardEffect
    \/ \E call \in GatewayCalls : \E r \in ResponsesOf(call.endpoint) : FetchWithAuthSettle(call, r)
    \/ LoginSubmit
    \/ \E call \in LoginCalls : \E r \in ResponsesOf(call.endpoint) : LoginSettle(call, r)
    \/ \E endpoint \in GatewayEndpoints : CallReadApi(endpoint)
    \/ Logout

SpecApi == Init /\ [][NextApi]_vars

\* ---- the session layer with navigation through the browser history ----
\* the landing page, the login page and the dashboard, which the user may
\* leave and come back to with the Back / Forward buttons at any moment
NextNav ==
    \/ \E path \in Paths : ClickLink(path)
    \/ \E path \in Paths : HistoryTraverse(path)
    \/ \E path \in Paths : BrowserNavigate(path)
    \/ CommitHardNav
    \/ DashboardEffect
    \/ \E call \in GatewayCalls : \E r \in ResponsesOf(call.endpoint) : FetchWithAuthSettle(call, r)
    \/ LoginSubmit
    \/ \E call \in LoginCalls : \E r \in ResponsesOf(call.endpoint) : LoginSettle(call, r)

SpecNav == Init /\ [][NextNav]_vars


\* ======================= properties =======================

HttpStatus(r, status) == r.type = "response" /\ r.status = status

NonOk(r) == r.type = "response" /\ (r.status < 200 \/ r.status > 299)

CredentialAbsent == TOKEN_KEY \notin DOMAIN localStorage

SentToGateway == {i \in DOMAIN sent : sent[i].endpoint \in GatewayEndpoints}

\* C1: whenever a fetchWithAuth call gets a 401 response, the stored
\* Credential is cleared, window.location.href is set to the login path and
\* the call ends by throwing "Unauthorized" instead of returning the response.
C1_UnauthorizedHandled ==
    (event.handler = "fetchWithAuth" /\ HttpStatus(outcome.response, 401)) =>
        /\ CredentialAbsent
        /\ hardNav = LOGIN_PATH
        /\ outcome.result = UNAUTHORIZED
        /\ outcome.result # "returned"

C1_Witness ==
    /\ event.handler = "fetchWithAuth"
    /\ HttpStatus(outcome.response, 401)
    /\ outcome.result = UNAUTHORIZED
    /\ hardNav = LOGIN_PATH

\* C2: the token store holds at most one Credential, under the one key; a
\* successful login leaves exactly the access_token of its response there;
\* and once the store was cleared (logout or 401) no gateway request sent
\* before the next successful login carries any bearer credential.
C2_SingleSlotNoLeak ==
    /\ DOMAIN localStorage \subseteq {TOKEN_KEY}
    /\ (event.handler = "login" /\ HttpStatus(outcome.response, 200)) =>
           localStorage = (TOKEN_KEY :> outcome.response.body.access_token)
    /\ loggedOut =>
           \A i \in SentToGateway : \A t \in Tokens :
               sent[i].headers.Authorization # <<"Bearer", t>>

C2_Witness ==
    /\ loggedOut
    /\ event.handler = "api"
    /\ SentToGateway # {}

\* C3: when the dashboard's mount effect runs with no Credential stored, it
\* sends no request at all and the location becomes the login path.
C3_NoFetchWithoutCredential ==
    (event.handler = "TenantDashboard.useEffect" /\ CredentialAbsent) =>
        /\ sent = <<>>
        /\ location = LOGIN_PATH
        /\ \A e \in GatewayEndpoints : Pending(pool, e, TRUE) = 0

C3_Witness ==
    /\ event.handler = "TenantDashboard.useEffect"
    /\ CredentialAbsent
    /\ location = LOGIN_PATH

\* C4: once one of the two dashboard fetches of a page load was rejected
\* with "Unauthorized" (a 401), the tenant state of that page load is null,
\* whatever the other fetch returned and in whatever order.
C4_NoTenantAfter401 ==
    (dashboard.tenantError = UNAUTHORIZED \/ dashboard.paymentsError = UNAUTHORIZED) =>
        dashboard.tenant = NoTenant

C4_Witness ==
    /\ dashboard.paymentsError = UNAUTHORIZED
    /\ dashboard.tenantP = "fulfilled"
    /\ dashboard.tenantData # NoTenant

\* C5: when the login call of the mounted login form gets a non-ok response
\* whose body carries a detail d, the form's error is exactly d, the location
\* does not change and the token store is left as it was.
C5_LoginDetailShown ==
    [][(/\ event'.handler = "login"
        /\ outcome'.alive
        /\ NonOk(outcome'.response)
        /\ outcome'.response.body.detail # "")
       => (/\ loginForm'.error = outcome'.response.body.detail
           /\ location' = location
           /\ localStorage' = localStorage)]_vars

C5_Witness ==
    /\ event.handler = "login"
    /\ outcome.alive
    /\ NonOk(outcome.response)
    /\ loginForm.error = "bad credentials"
    /\ CredentialAbsent

\* C6: a batch of M files chosen in the repair form while N are selected,
\* N + M > 5, is rejected as a whole: the form state (selected files,
\* previews, pending reads) is unchanged, the alert is shown and no request
\* is sent.
C6_BatchRejected ==
    [][(/\ event'.handler = "RepairRequest.handleFileSelect"
        /\ Len(repairForm.selectedFiles) + Len(event'.files) > 5)
       => (/\ repairForm' = repairForm
           /\ alertMsg' = ALERT_TOO_MANY
           /\ sent' = <<>>
           /\ pool' = pool)]_vars

C6_Witness ==
    /\ event.handler = "RepairRequest.handleFileSelect"
    /\ alertMsg = ALERT_TOO_MANY
    /\ Len(repairForm.selectedFiles) + Len(event.files) > 5
    /\ Len(repairForm.selectedFiles) < 5

\* C7: a payment submission sends exactly one request, to
\* /api/payment/submit; when its response is ok no further request is sent,
\* the location becomes the dashboard path and the payment form holds no
\* selected file, no preview and no in-flight flag.
C7_PaymentSuccess ==
    /\ event.handler = "PaymentSubmit.handleSubmit" =>
           Len(sent) = 1 /\ sent[1].endpoint = PAYMENT_SUBMIT_ENDPOINT
    /\ (event.handler = "PaymentSubmit.response" /\ HttpStatus(outcome.response, 200)) =>
           /\ sent = <<>>
           /\ location = DASHBOARD_PATH
           /\ paymentForm.selectedFile = Null
           /\ paymentForm.previewUrl = Null
           /\ ~paymentForm.isSubmitting

C7_Witness ==
    /\ event.handler = "PaymentSubmit.response"
    /\ HttpStatus(outcome.response, 200)
    /\ outcome.alive
    /\ location = DASHBOARD_PATH

\* C8: the badge rendered for a status is the paid badge for "paid", the
\* pending badge for "unpaid", the overdue badge for "overdue", and nothing
\* (undefined) for any other string, for the tenant and for each payment.
BadgeFor(status, badge) ==
    /\ status = "paid" => badge = BADGE_PAID
    /\ status = "unpaid" => badge = BADGE_UNPAID
    /\ status = "overdue" => badge = BADGE_OVERDUE
    /\ status \notin {"paid", "unpaid", "overdue"} => badge = Undefined

C8_BadgeMapping ==
    Rendered =>
        /\ BadgeFor(dashboard.tenant.payment_status, TenantBadge)
        /\ \A i \in DOMAIN dashboard.payments :
               BadgeFor(dashboard.payments[i].status, PaymentBadges[i])

C8_Witness ==
    /\ Rendered
    /\ dashboard.tenant.payment_status = "archived"
    /\ TenantBadge = Undefined
    /\ Len(dashboard.payments) = 1
    /\ PaymentBadges[1] = BADGE_UNPAID

\* C9 as stated: a gateway request carries 'Bearer c' when Credential c is
\* stored, and no Authorization header at all when none is stored.
C9_NoHeaderWhenAbsent ==
    \A i \in SentToGateway :
        IF CredentialAbsent
        THEN "Authorization" \notin DOMAIN sent[i].headers
        ELSE sent[i].headers.Authorization = <<"Bearer", localStorage[TOKEN_KEY]>>

\* C9 amended: a gateway request carries 'Bearer c' when Credential c is
\* stored; when none is stored the request is still sent and its
\* Authorization header is present with the empty string as value.
C9_EmptyHeaderWhenAbsent ==
    \A i \in SentToGateway :
        /\ "Authorization" \in DOMAIN sent[i].headers
        /\ IF CredentialAbsent
           THEN sent[i].headers.Authorization = << >>
           ELSE sent[i].headers.Authorization = <<"Bearer", localStorage[TOKEN_KEY]>>

C9_Witness ==
    /\ CredentialAbsent
    /\ SentToGateway # {}
    /\ \E c \in Calls : c.endpoint \in GatewayEndpoints /\ pool[c] > 0

\* C10: when a fetchWithAuth call gets a response whose status is not 401,
\* the response is returned to the caller, and the step changes neither the
\* token store nor the location nor the pending window.location.href.
C10_Non401Returned ==
    [][(/\ event'.handler = "fetchWithAuth"
        /\ outcome'.response.type = "response"
        /\ outcome'.response.status # 401)
       => (/\ outcome'.result = "returned"
           /\ localStorage' = localStorage
           /\ hardNav' = hardNav
           /\ location' = location)]_vars

C10_Witness ==
    /\ event.handler = "fetchWithAuth"
    /\ HttpStatus(outcome.response, 500)
    /\ outcome.result = "returned"
    /\ ~CredentialAbsent
    /\ hardNav = Null

\* ---- the dashboard's three renderings ----
\* the spinner of the first early return
ShowsLoading == dashboard.isLoading

\* the "load failed" text of the second early return
LoadFailed == ~dashboard.isLoading /\ dashboard.tenant = NoTenant

\* a promise of this page load was rejected for another reason than a 401
NonAuthFailure ==
    \/ dashboard.tenantError \notin {Null, UNAUTHORIZED}
    \/ dashboard.paymentsError \notin {Null, UNAUTHORIZED}

AuthFailure ==
    dashboard.tenantError = UNAUTHORIZED \/ dashboard.paymentsError = UNAUTHORIZED

\* the mount effect found a token and both fetches were issued
BothIssued ==
    /\ Len(sent) = 2
    /\ sent[1].endpoint = TENANT_ENDPOINT
    /\ sent[2].endpoint = PAYMENTS_ENDPOINT
    /\ Pending(pool, TENANT_ENDPOINT, TRUE) > 0
    /\ Pending(pool, PAYMENTS_ENDPOINT, TRUE) > 0

\* C11 as stated: activated with a Credential, the dashboard issues both
\* fetches together and shows the loading state as long as either of them
\* has not settled, also after the other one failed.
C11_LoadingUntilBothSettled ==
    /\ (event.handler = "TenantDashboard.useEffect" /\ ~CredentialAbsent) =>
           BothIssued /\ ShowsLoading
    /\ (dashboard.tenantP = "pending" \/ dashboard.paymentsP = "pending") =>
           ShowsLoading

\* C11 amended: activated with a Credential, the dashboard issues both
\* fetches together; it shows the loading state exactly until both are
\* fulfilled or the first of them fails: a failure ends the loading state at
\* once, with the other fetch still in flight, and shows "load failed" with
\* no tenant data.
C11_LoadingUntilJoinOrFirstFailure ==
    /\ (event.handler = "TenantDashboard.useEffect" /\ ~CredentialAbsent) =>
           BothIssued /\ ShowsLoading
    /\ dashboard.effect = "done" =>
           (ShowsLoading <=>
               /\ "rejected" \notin {dashboard.tenantP, dashboard.paymentsP}
               /\ "pending" \in {dashboard.tenantP, dashboard.paymentsP})
    /\ "rejected" \in {dashboard.tenantP, dashboard.paymentsP} => LoadFailed

C11_Witness ==
    /\ dashboard.tenantP = "rejected"
    /\ dashboard.paymentsP = "pending"
    /\ Pending(pool, PAYMENTS_ENDPOINT, TRUE) > 0
    /\ LoadFailed

\* C12: once a dashboard fetch of a page load failed for another reason than
\* a 401, the dashboard of that page load shows "load failed": no tenant and
\* no payments are set even when the other fetch succeeded, the page renders
\* no link, and no step sends a gateway request for it again.
C12_LoadFailedTerminal ==
    NonAuthFailure =>
        /\ LoadFailed
        /\ dashboard.payments = <<>>
        /\ dashboard.effect = "done"
        /\ Links = {}
        /\ SentToGateway = {}

C12_Witness ==
    /\ dashboard.tenantError = TENANT_FAILED
    /\ dashboard.paymentsP = "fulfilled"
    /\ dashboard.paymentData # <<>>
    /\ LoadFailed

SubmitResponses == {"PaymentSubmit.response", "RepairRequest.response"}

GenericFailureAlerts == {ALERT_SUBMIT_FAILED, ALERT_NETWORK_ERROR}

\* C13: when a payment or repair submission ends without an ok response
\* (network failure or non-ok status), the step shows one of the two generic
\* failure alerts, changes neither the selected files nor the previews nor
\* the location, and the submitting flag of the form that sent it is false.
C13_SubmitFailureKeepsDraft ==
    [][(event'.handler \in SubmitResponses /\ ~Ok(outcome'.response))
       => (/\ alertMsg' \in GenericFailureAlerts
           /\ paymentForm'.selectedFile = paymentForm.selectedFile
           /\ paymentForm'.previewUrl = paymentForm.previewUrl
           /\ repairForm'.selectedFiles = repairForm.selectedFiles
           /\ repairForm'.previewUrls = repairForm.previewUrls
           /\ location' = location
           /\ hardNav' = hardNav
           /\ (outcome'.alive /\ event'.handler = "PaymentSubmit.response") =>
                  ~paymentForm'.isSubmitting
           /\ (outcome'.alive /\ event'.handler = "RepairRequest.response") =>
                  ~repairForm'.isSubmitting)]_vars

C13_Witness ==
    /\ event.handler = "RepairRequest.response"
    /\ outcome.alive
    /\ outcome.response.type = "error"
    /\ alertMsg = ALERT_NETWORK_ERROR
    /\ Len(repairForm.selectedFiles) = 2
    /\ Len(repairForm.previewUrls) = 2
    /\ ~repairForm.isSubmitting

\* C14: in every state, get after set(c) gives c, get after clear gives
\* null and clearing twice equals clearing once; a logout leaves get null, a
\* successful login leaves get equal to the access_token, and a document
\* load leaves the store as it was.
C14_TokenStoreSemantics ==
    [][/\ \A c \in Tokens : getAccessToken(setAccessToken(localStorage', c)) = c
       /\ getAccessToken(clearAccessToken(localStorage')) = Null
       /\ clearAccessToken(clearAccessToken(localStorage')) = clearAccessToken(localStorage')
       /\ event'.handler = "clearAccessToken" => getAccessToken(localStorage') = Null
       /\ (event'.handler = "login" /\ Ok(outcome'.response)) =>
              getAccessToken(localStorage') = outcome'.response.body.access_token
       /\ event'.handler = "load" => localStorage' = localStorage]_vars

C14_Witness ==
    /\ event.handler = "load"
    /\ location = DASHBOARD_PATH
    /\ getAccessToken(localStorage) = "tokB"

\* C15: when a fetchWithAuth call gets a 401 response, the path assigned to
\* window.location.href is /login, the path the landing page links to.
C15_RedirectsToLoginHref ==
    (event.handler = "fetchWithAuth" /\ HttpStatus(outcome.response, 401)) =>
        hardNav = LANDING_LOGIN_HREF

\* C16: a page load whose only fetch failures are 401s does not show the
\* "load failed" text.
C16_NoLoadFailedAfter401 ==
    (AuthFailure /\ ~NonAuthFailure) => ~LoadFailed

\* C17: every fetchWithAuth call that gets a 401 clears the token store
\* and assigns the login path to window.location.href, also when another
\* call did so before it (and a login stored a new token in between); after
\* any number of them, in any order, the Credential is absent and the
\* pending navigation is the one to the login path.
C17_Every401ClearsAndRedirects ==
    [][(event'.handler = "fetchWithAuth" /\ HttpStatus(outcome'.response, 401))
       => (/\ TOKEN_KEY \notin DOMAIN localStorage'
           /\ hardNav' = LOGIN_PATH
           /\ loggedOut'
           /\ outcome'.result = UNAUTHORIZED
           /\ location' = location)]_vars

C17_Witness ==
    /\ event.handler = "fetchWithAuth"
    /\ HttpStatus(outcome.response, 401)
    /\ dashboard.tenantError = UNAUTHORIZED
    /\ dashboard.paymentsError = UNAUTHORIZED
    /\ CredentialAbsent
    /\ hardNav = LOGIN_PATH

\* the token store changes only in a successful login, which leaves the
\* access_token there, in a logout or in a 401 of the gateway, which leave
\* it empty
CredentialFrame ==
    localStorage' # localStorage =>
        \/ /\ event'.handler = "login"
           /\ Ok(outcome'.response)
           /\ localStorage' = (TOKEN_KEY :> outcome'.response.body.access_token)
        \/ /\ event'.handler = "clearAccessToken"
           /\ TOKEN_KEY \notin DOMAIN localStorage'
        \/ /\ event'.handler = "fetchWithAuth"
           /\ HttpStatus(outcome'.response, 401)
           /\ TOKEN_KEY \notin DOMAIN localStorage'

BearerOf(store) == <<"Bearer", store[TOKEN_KEY]>>

\* C18 as stated: the token store changes only in a successful login, a
\* logout or a 401, and every request sent while a Credential is stored
\* carries it (the login request, which obtains the Credential, set aside).
C18_ReadOnEveryCall ==
    [][/\ CredentialFrame
       /\ TOKEN_KEY \in DOMAIN localStorage' =>
              \A i \in DOMAIN sent' :
                  sent'[i].endpoint # LOGIN_ENDPOINT =>
                      /\ "Authorization" \in DOMAIN sent'[i].headers
                      /\ sent'[i].headers.Authorization = BearerOf(localStorage')]_vars

\* C18 amended: the token store changes only in a successful login, a
\* logout or a 401; every request of the gateway (tenant profile, payment
\* history) sent while a Credential is stored carries it, and the login
\* request and the payment and repair submissions carry no Authorization
\* header.
C18_ReadOnGatewayCalls ==
    [][/\ CredentialFrame
       /\ \A i \in DOMAIN sent' :
              IF sent'[i].endpoint \in GatewayEndpoints
              THEN TOKEN_KEY \in DOMAIN localStorage' =>
                       sent'[i].headers.Authorization = BearerOf(localStorage')
              ELSE "Authorization" \notin DOMAIN sent'[i].headers]_vars

C18_Witness ==
    /\ event.handler = "PaymentSubmit.handleSubmit"
    /\ Len(sent) = 1
    /\ "Authorization" \notin DOMAIN sent[1].headers
    /\ getAccessToken(localStorage) = "tokA"

\* C19: a payment or repair submission sends one request with no
\* Authorization header; a 401 answer to it shows the generic failure alert
\* and changes neither the token store nor window.location.href nor the
\* location.
C19_SubmitBypassesGateway ==
    [][/\ event'.handler \in {"PaymentSubmit.handleSubmit", "RepairRequest.handleSubmit"} =>
              /\ Len(sent') = 1
              /\ "Authorization" \notin DOMAIN sent'[1].headers
       /\ (event'.handler \in SubmitResponses /\ HttpStatus(outcome'.response, 401)) =>
              /\ alertMsg' = ALERT_SUBMIT_FAILED
              /\ localStorage' = localStorage
              /\ hardNav' = hardNav
              /\ location' = location]_vars

C19_Witness ==
    /\ event.handler = "PaymentSubmit.response"
    /\ HttpStatus(outcome.response, 401)
    /\ alertMsg = ALERT_SUBMIT_FAILED
    /\ getAccessToken(localStorage) = "tokA"
    /\ hardNav = Null
    /\ location = PAYMENT_PATH

\* C20: a failed login shows an error text in the mounted form; a 401 of the
\* gateway starts the redirect; a failed read leaves the mounted dashboard
\* on "load failed"; a failed submission shows an alert; a batch beyond 5
\* images shows an alert; and a loading or submitting flag is set only while
\* a call of its component is in flight.
C20_FailuresSurface ==
    [][/\ (event'.handler = "login" /\ outcome'.alive /\ ~Ok(outcome'.response)) =>
              loginForm'.error # "" /\ ~loginForm'.isLoading
       /\ (event'.handler = "fetchWithAuth" /\ HttpStatus(outcome'.response, 401)) =>
              hardNav' = LOGIN_PATH
       /\ (event'.handler = "fetchWithAuth" /\ outcome'.alive
           /\ ~Ok(outcome'.response)) =>
              (hardNav' = LOGIN_PATH \/ LoadFailed') /\ ~ShowsLoading'
       /\ (event'.handler \in SubmitResponses /\ ~Ok(outcome'.response)) =>
              alertMsg' \in GenericFailureAlerts
       /\ (event'.handler = "RepairRequest.handleFileSelect"
           /\ Len(repairForm.selectedFiles) + Len(event'.files) > 5) =>
              alertMsg' = ALERT_TOO_MANY
       /\ loginForm'.isLoading => pool'[InFlight(LOGIN_ENDPOINT)] > 0
       /\ paymentForm'.isSubmitting => pool'[InFlight(PAYMENT_SUBMIT_ENDPOINT)] > 0
       /\ repairForm'.isSubmitting => pool'[InFlight(REPAIR_CREATE_ENDPOINT)] > 0
       /\ (dashboard'.effect = "done" /\ ShowsLoading') =>
              \E e \in GatewayEndpoints : Pending(pool', e, TRUE) > 0]_vars

C20_Witness ==
    /\ event.handler = "login"
    /\ outcome.alive
    /\ HttpStatus(outcome.response, 400)
    /\ loginForm.error = LOGIN_FAILED
    /\ ~loginForm.isLoading

\* C21: the repair form never holds more than 5 selected files, and the
\* request a repair submission sends carries exactly the files selected at
\* that moment, between 0 and 5 of them.
C21_AtMostFiveImages ==
    /\ Len(repairForm.selectedFiles) <= 5
    /\ event.handler = "RepairRequest.handleSubmit" =>
           /\ Len(sent) = 1
           /\ sent[1].endpoint = REPAIR_CREATE_ENDPOINT
           /\ sent[1].files = repairForm.selectedFiles
           /\ Len(sent[1].files) \in 0..5

C21_Witness ==
    /\ event.handler = "RepairRequest.handleSubmit"
    /\ Len(sent) = 1
    /\ Len(sent[1].files) = 5

\* the state of the four components
Views == <<dashboard, loginForm, paymentForm, repairForm>>

\* C22: a client-side navigation away from the dashboard leaves every
\* pending request in flight; and when the answer to a gateway call whose
\* dashboard is gone arrives and is not a 401, the step changes no component
\* state, nor the token store, the location or window.location.href.
C22_NoCancellation ==
    [][/\ event'.handler = "popstate" =>
              /\ Total(pool', Calls) = Total(pool, Calls)
              /\ \A e \in GatewayEndpoints :
                     Pending(pool', e, FALSE) + Pending(pool', e, TRUE)
                         = Pending(pool, e, FALSE) + Pending(pool, e, TRUE)
       /\ (/\ event'.handler = "fetchWithAuth"
           /\ ~outcome'.alive
           /\ ~HttpStatus(outcome'.response, 401)) =>
              /\ Views' = Views
              /\ localStorage' = localStorage
              /\ location' = location
              /\ hardNav' = hardNav
              /\ Total(pool', Calls) = Total(pool, Calls) - 1]_vars

C22_Witness ==
    /\ event.handler = "fetchWithAuth"
    /\ ~outcome.alive
    /\ HttpStatus(outcome.response, 200)
    /\ outcome.response.body.tenant # NoTenant
    /\ PageAt(location) = "TenantLogin"
    /\ dashboard = InitDashboard
    /\ getAccessToken(localStorage) = "tokA"

RefreshTokens == {RefreshOf(t) : t \in Tokens}

\* C23: the token store never holds anything but an access token under the
\* one key, no request carries a refresh token, the step in which a response
\* arrives sends no request (no retry), and the store goes from empty to
\* holding a Credential only in a successful login, which leaves the
\* access_token of its response there.
C23_OnlyLoginRestoresCredential ==
    [][/\ DOMAIN localStorage' \subseteq {TOKEN_KEY}
       /\ \A k \in DOMAIN localStorage' : localStorage'[k] \in Tokens
       /\ \A i \in DOMAIN sent' : \A k \in DOMAIN sent'[i].headers :
              \A j \in DOMAIN sent'[i].headers[k] :
                  sent'[i].headers[k][j] \notin RefreshTokens
       /\ event'.handler \in {"fetchWithAuth", "login"} => sent' = <<>>
       /\ (TOKEN_KEY \notin DOMAIN localStorage /\ TOKEN_KEY \in DOMAIN localStorage') =>
              /\ event'.handler = "login"
              /\ Ok(outcome'.response)
              /\ localStorage'[TOKEN_KEY] = outcome'.response.body.access_token]_vars

C23_Witness ==
    /\ event.handler = "login"
    /\ Ok(outcome.response)
    /\ outcome.response.body.refresh_token = "refreshB"
    /\ outcome.stored = Null
    /\ hardNav = LOGIN_PATH
    /\ loggedOut = FALSE
    /\ localStorage = (TOKEN_KEY :> "tokB")

\* C24: a 401 answer to a gateway call removes the token that is in the
\* store when the answer is handled and assigns the login path to
\* window.location.href, also when that token is not the one the request
\* was sent with.
C24_ClearsStoredNotCarried ==
    [][(event'.handler = "fetchWithAuth" /\ HttpStatus(outcome'.response, 401))
       => (/\ outcome'.stored = getAccessToken(localStorage)
           /\ TOKEN_KEY \notin DOMAIN localStorage'
           /\ hardNav' = LOGIN_PATH)]_vars

C24_Witness ==
    /\ event.handler = "fetchWithAuth"
    /\ HttpStatus(outcome.response, 401)
    /\ outcome.token = "tokA"
    /\ outcome.stored = "tokB"
    /\ CredentialAbsent
    /\ hardNav = LOGIN_PATH

\* C25: on the payment form a preview that is present is the preview of the
\* selected file, and there is no preview when no file is selected.
C25_PreviewMatchesSelection ==
    /\ paymentForm.previewUrl # Null =>
           /\ paymentForm.selectedFile # Null
           /\ paymentForm.previewUrl = DataUrl(paymentForm.selectedFile)
    /\ paymentForm.selectedFile = Null => paymentForm.previewUrl = Null

\* C26: on the repair form, when no read is pending, there are as many
\* previews as selected files and the i-th preview is the preview of the
\* i-th selected file.
C26_PreviewsAligned ==
    repairForm.reads = <<>> =>
        /\ Len(repairForm.previewUrls) = Len(repairForm.selectedFiles)
        /\ \A i \in DOMAIN repairForm.previewUrls :
               repairForm.previewUrls[i] = DataUrl(repairForm.selectedFiles[i])

\* C27: whenever the dashboard holds tenant data, its effect ran with a
\* token, both fetches were fulfilled with ok responses, and tenant and
\* payments are the data of those two responses, set together with the end
\* of the loading state; with a fetch rejected or pending there is no tenant
\* data and there are no payments.
C27_TenantOnlyAfterBothOk ==
    /\ dashboard.tenant # NoTenant =>
           /\ dashboard.effect = "done"
           /\ dashboard.tenantP = "fulfilled"
           /\ dashboard.paymentsP = "fulfilled"
           /\ dashboard.tenantError = Null
           /\ dashboard.paymentsError = Null
           /\ dashboard.tenant = dashboard.tenantData
           /\ dashboard.payments = dashboard.paymentData
           /\ ~dashboard.isLoading
    /\ dashboard.payments # <<>> => dashboard.tenant # NoTenant
    /\ (event.handler = "TenantDashboard.useEffect" /\ CredentialAbsent) =>
           dashboard.tenant = NoTenant

C27_Witness ==
    /\ event.handler = "fetchWithAuth"
    /\ outcome.endpoint = TENANT_ENDPOINT
    /\ Rendered
    /\ dashboard.tenant.payment_status = "unpaid"
    /\ Len(dashboard.payments) = 1

\* C28: a step of the login call changes the page only when the call
\* succeeded, the page it shows is the dashboard, and by then the
\* access_token of the response is in the token store; the dashboard's mount
\* effect that runs right after a successful login finds the token, stays
\* on the dashboard and issues both fetches.
C28_DashboardOnlyAfterTokenStored ==
    [][ /\ (event'.handler = "login" /\ location' # location) =>
               /\ Ok(outcome'.response)
               /\ location' = DASHBOARD_PATH
               /\ getAccessToken(localStorage') = outcome'.response.body.access_token
               /\ ~Falsy(getItem(localStorage', TOKEN_KEY))
        /\ (event'.handler = "login" /\ Ok(outcome'.response)) =>
               location' = DASHBOARD_PATH
        /\ (/\ event.handler = "login" /\ Ok(outcome.response)
            /\ event'.handler = "TenantDashboard.useEffect") =>
               /\ location' = DASHBOARD_PATH
               /\ BothIssued'
               /\ hardNav' = hardNav ]_vars

C28_Witness ==
    /\ event.handler = "login"
    /\ Ok(outcome.response)
    /\ outcome.stored = Null
    /\ location = DASHBOARD_PATH
    /\ getAccessToken(localStorage) = "tokB"
    /\ dashboard.effect = "todo"

\* C29: on each of the three forms the in-flight flag is true exactly while
\* the one request of the mounted form is pending: it is set by the submit,
\* cleared when the request settles, whether with an ok response, a non-ok
\* response or a network error, and since the submit control is disabled
\* while it is set, a form never has two requests in flight.
C29_FlagTracksSingleCall ==
    /\ Pending(pool, LOGIN_ENDPOINT, TRUE) = (IF loginForm.isLoading THEN 1 ELSE 0)
    /\ Pending(pool, PAYMENT_SUBMIT_ENDPOINT, TRUE) = (IF paymentForm.isSubmitting THEN 1 ELSE 0)
    /\ Pending(pool, REPAIR_CREATE_ENDPOINT, TRUE) = (IF repairForm.isSubmitting THEN 1 ELSE 0)
    /\ (event.handler = "login" /\ outcome.alive) => ~loginForm.isLoading
    /\ (event.handler = "PaymentSubmit.response" /\ outcome.alive) =>
           ~paymentForm.isSubmitting
    /\ (event.handler = "RepairRequest.response" /\ outcome.alive) =>
           ~repairForm.isSubmitting
    /\ event.handler = "TenantLogin.handleSubmit" => loginForm.isLoading
    /\ event.handler = "PaymentSubmit.handleSubmit" => paymentForm.isSubmitting
    /\ event.handler = "RepairRequest.handleSubmit" => repairForm.isSubmitting

C29_Witness ==
    /\ event.handler = "PaymentSubmit.response"
    /\ outcome.response.type = "error"
    /\ outcome.alive
    /\ location = PAYMENT_PATH
    /\ ~paymentForm.isSubmitting
    /\ Pending(pool, PAYMENT_SUBMIT_ENDPOINT, TRUE) = 0

\* C30: a dashboard that ran its effect with a token and is no longer just
\* waiting for its fetches has reached exactly one of three outcomes: the
\* tenant data is rendered, the "load failed" text is shown, or the
\* redirect to the login path has been started.
C30_ExactlyOneOutcome ==
    LET reached == {o \in {"rendered", "load failed", "redirect"} :
                      \/ o = "rendered" /\ Rendered
                      \/ o = "load failed" /\ LoadFailed
                      \/ o = "redirect" /\ hardNav = LOGIN_PATH}
    IN  /\ (event.handler = "TenantDashboard.useEffect" /\ ~CredentialAbsent) =>
               ShowsLoading /\ reached = {}
        /\ (/\ PageAt(location) = "TenantDashboard"
            /\ dashboard.effect = "done"
            /\ dashboard.all # "pending") => Cardinality(reached) = 1

====
